---------------------------- MODULE Spec2Model ----------------------------
(***************************************************************************)
(* closefds: marking every open file descriptor close-on-exec, except a    *)
(* keep set, between fork() and exec().  Model of src/src/lib.rs, with the *)
(* spawning harness of src/tests/tests.rs as the environment.              *)
(***************************************************************************)
EXTENDS Integers, Sequences, FiniteSets, TLC

(***************************************************************************)
(* Bounds of the model.                                                    *)
(***************************************************************************)
\* descriptor numbers of the modelled descriptor table are 0..MaxFd
MaxFd == 2
\* longest keep_fds vector handed to close_fds_on_exec
MaxKeep == 2
\* calls of the closure in one behaviour
MaxCalls == 2
\* longest all-digit entry name handed to the parser
MaxNameLen == 10
\* longest entry name over the full byte alphabet handed to the parser
MaxShortLen == 2
\* largest flag word a descriptor is opened with in the marker specification
MaxFlagWord == 3

(***************************************************************************)
(* Program constants.                                                      *)
(***************************************************************************)
\* libc::FD_CLOEXEC
FD_CLOEXEC == 1
\* fcntl's error return; also stands for "not open" in the descriptor table
Closed == -1
\* '0' as i8, '9' as i8
AsciiZero == 48
AsciiNine == 57
\* the terminating NUL of d_name
Nul == 0
\* '.', the byte of the "." and ".." entries
AsciiDot == 46
\* libc::c_int is 32 bits wide: i32::MAX, and 2^16 to compute on halves
IntMax == 2147483647
Half == 65536

FD == 0..MaxFd

(***************************************************************************)
(* Entry names: null-terminated byte strings (d_name).                     *)
(***************************************************************************)
RECURSIVE DigitsOf(_)
\* the decimal digits of n >= 0, as bytes, most significant first
DigitsOf(n) ==
    IF n < 10 THEN <<AsciiZero + n>>
    ELSE Append(DigitsOf(n \div 10), AsciiZero + (n % 10))

\* the name of descriptor fd in the descriptor directory
NameOf(fd) == Append(DigitsOf(fd), Nul)
DotName == <<AsciiDot, Nul>>
DotDotName == <<AsciiDot, AsciiDot, Nul>>

\* a byte read through *const c_char (i8)
AsI8(b) == IF b >= 128 THEN b - 256 ELSE b

\* num * 10 + d overflows the c_int
Overflows(num, d) ==
    \/ num > IntMax \div 10
    \/ num = IntMax \div 10 /\ d > IntMax % 10
    \/ num < 0 - (IntMax \div 10)

\* num * 10 + d in wrapping 32-bit two's complement, computed on 16-bit
\* halves
WrapMulAdd(num, d) ==
    LET r   == IF num >= 0 THEN num ELSE (num + IntMax) + 1
        hi  == (IF num >= 0 THEN 0 ELSE Half \div 2) + (r \div Half)
        lo  == r % Half
        tlo == lo * 10 + d
        lo2 == tlo % Half
        hi2 == (hi * 10 + (tlo \div Half)) % Half
    IN  IF hi2 < Half \div 2
        THEN hi2 * Half + lo2
        ELSE (((hi2 - Half \div 2) * Half + lo2) - IntMax) - 1

RECURSIVE PosIntLoop(_, _, _, _)
\* the while loop and the final test of pos_int_from_ascii, at byte i with
\* accumulator num.  checks: the build has overflow checks (a debug build
\* panics on overflow, a release build wraps).
PosIntLoop(name, i, num, checks) ==
    LET c == AsI8(name[i]) IN
    IF c >= AsciiZero /\ c <= AsciiNine
    THEN IF Overflows(num, c - AsciiZero)
         THEN IF checks THEN [kind |-> "panic"]
              ELSE PosIntLoop(name, i + 1, WrapMulAdd(num, c - AsciiZero), checks)
         ELSE PosIntLoop(name, i + 1, num * 10 + (c - AsciiZero), checks)
    ELSE IF name[i] # Nul
         THEN [kind |-> "err"]
         ELSE [kind |-> "ok", num |-> num]

\* a plausible slip: the test of the byte that ended the digits is left out
pos_int_from_ascii_nocheck(name, checks) ==
    LET r == PosIntLoop(name, 1, 0, checks)
        RECURSIVE Stop(_)
        Stop(i) == IF AsI8(name[i]) >= AsciiZero /\ AsI8(name[i]) <= AsciiNine
                   THEN Stop(i + 1) ELSE i
    IN  IF r.kind = "err"
        THEN PosIntLoop(Append(SubSeq(name, 1, Stop(1) - 1), Nul), 1, 0, checks)
        ELSE r

pos_int_from_ascii(name, checks) == PosIntLoop(name, 1, 0, checks)



(***************************************************************************)
(* The close-on-exec marker.  A descriptor table maps each descriptor to   *)
(* its flag word, or to Closed.                                            *)
(***************************************************************************)
\* fd_flags & FD_CLOEXEC != 0
HasCloexec(w) == (w \div FD_CLOEXEC) % 2 = 1

OpenFds(tab) == {fd \in DOMAIN tab : tab[fd] # Closed}
\* the highest open descriptor of tab, or Closed when none is open
Top(tab) ==
    IF OpenFds(tab) = {} THEN Closed
    ELSE CHOOSE fd \in OpenFds(tab) : \A g \in OpenFds(tab) : g <= fd

\* a plausible slip: no early return when the bit is already as wanted
set_cloexec_alwayswrite(tab, fd, set, race) ==
    LET fd_flags == IF fd \in DOMAIN tab THEN tab[fd] ELSE Closed
        cleared  == IF HasCloexec(fd_flags) THEN fd_flags - FD_CLOEXEC ELSE fd_flags
        new      == IF set THEN cleared + FD_CLOEXEC ELSE cleared
    IN  IF fd_flags = Closed
        THEN [tab |-> tab, ret |-> "err", wrote |-> 0]
        ELSE IF race
             THEN [tab |-> [tab EXCEPT ![fd] = Closed], ret |-> "err", wrote |-> 0]
             ELSE [tab |-> [tab EXCEPT ![fd] = new], ret |-> "ok", wrote |-> 1]

\* a plausible slip: the flag word written is the bit alone (fd_flags =
\* FD_CLOEXEC instead of fd_flags |= FD_CLOEXEC)
set_cloexec_clobber(tab, fd, set, race) ==
    LET fd_flags == IF fd \in DOMAIN tab THEN tab[fd] ELSE Closed
        is_set   == HasCloexec(fd_flags)
        new      == IF set THEN FD_CLOEXEC ELSE 0
    IN  IF fd_flags = Closed
        THEN [tab |-> tab, ret |-> "err", wrote |-> 0]
        ELSE IF set = is_set
             THEN [tab |-> tab, ret |-> "ok", wrote |-> 0]
             ELSE IF race
                  THEN [tab |-> [tab EXCEPT ![fd] = Closed], ret |-> "err",
                        wrote |-> 0]
                  ELSE [tab |-> [tab EXCEPT ![fd] = new], ret |-> "ok",
                        wrote |-> 1]

\* set_cloexec(fd, set) on table tab.  race: another thread closes fd between
\* F_GETFD and F_SETFD, so that F_SETFD fails.  wrote counts F_SETFD calls
\* that succeeded.
set_cloexec(tab, fd, set, race) ==
    LET fd_flags == IF fd \in DOMAIN tab THEN tab[fd] ELSE Closed
        is_set   == HasCloexec(fd_flags)
        new      == IF set THEN fd_flags + FD_CLOEXEC ELSE fd_flags - FD_CLOEXEC
    IN  IF fd_flags = Closed
        THEN [tab |-> tab, ret |-> "err", wrote |-> 0]
        ELSE IF set = is_set
             THEN [tab |-> tab, ret |-> "ok", wrote |-> 0]
             ELSE IF race
                  THEN [tab |-> [tab EXCEPT ![fd] = Closed], ret |-> "err",
                        wrote |-> 0]
                  ELSE [tab |-> [tab EXCEPT ![fd] = new], ret |-> "ok",
                        wrote |-> 1]

(***************************************************************************)
(* The keep set: Vec::sort_unstable and slice::binary_search.              *)
(***************************************************************************)
RECURSIVE Insert(_, _)
Insert(s, x) ==
    IF s = <<>> THEN <<x>>
    ELSE IF x <= Head(s) THEN <<x>> \o s
    ELSE <<Head(s)>> \o Insert(Tail(s), x)

RECURSIVE SortAsc(_)
\* keep_fds.sort_unstable(): ascending, duplicates kept
SortAsc(s) == IF s = <<>> THEN <<>> ELSE Insert(SortAsc(Tail(s)), Head(s))

RECURSIVE BSearch(_, _, _, _)
\* the loop of slice::binary_search over s[left+1 .. right] (0-based
\* half-open [left, right)); TRUE when x is found (Ok), FALSE for Err
BSearch(s, x, left, right) ==
    IF left >= right THEN FALSE
    ELSE LET mid == left + (right - left) \div 2 IN
         IF s[mid + 1] < x THEN BSearch(s, x, mid + 1, right)
         ELSE IF s[mid + 1] > x THEN BSearch(s, x, left, mid)
         ELSE TRUE

\* a plausible slip: the search stops one short of the last element
binary_search_short(s, x) == BSearch(s, x, 0, Len(s) - 1)

\* self.keep_fds.binary_search(&f).is_ok()
binary_search(s, x) == BSearch(s, x, 0, Len(s))

\* a plausible slip: the keep set is stored as given
sort_unstable_skipped(keep) == keep

sort_unstable(keep) == SortAsc(keep)

(***************************************************************************)
(* The descriptor directory stream.                                        *)
(***************************************************************************)
RECURSIVE FdNames(_, _)
\* the names of the open descriptors of tab from fd upwards
FdNames(tab, fd) ==
    IF fd > MaxFd THEN <<>>
    ELSE (IF tab[fd] # Closed THEN <<NameOf(fd)>> ELSE <<>>) \o FdNames(tab, fd + 1)

\* what the stream yields after a rewind: the dot entries when the
\* directory has them, then one entry per open descriptor
ListDir(tab, dots) ==
    (IF dots THEN <<DotName, DotDotName>> ELSE <<>>) \o FdNames(tab, 0)

\* a plausible slip: the stream is not rewound
rewinddir_skipped(pos) == pos

\* libc::rewinddir: the stream's position back to the first entry
rewinddir(pos) == 0

\* a plausible slip: a null pointer from opendir is taken for a stream
OpenDir_open_unchecked(found) == [ok |-> TRUE, dir |-> IF found THEN "open" ELSE "null"]

\* OpenDir::open: found is whether opendir finds and may read the path
OpenDir_open(found) ==
    IF ~found THEN [ok |-> FALSE, dir |-> "unopened"]
    ELSE [ok |-> TRUE, dir |-> "open"]

\* CloseFdsOnExec::new
CloseFdsOnExec_new(keep, found) ==
    LET d == OpenDir_open(found) IN
    IF ~d.ok THEN [ok |-> FALSE, dir |-> d.dir, keep_fds |-> <<>>]
    ELSE [ok |-> TRUE, dir |-> d.dir, keep_fds |-> sort_unstable(keep)]

(***************************************************************************)
(* The execution pass.                                                     *)
(***************************************************************************)
NoFault == [kind |-> "none", at |-> 0]

\* a plausible slip: the result of set_cloexec is dropped (no `?`)
MarkFailed_ignored(r) == FALSE

\* set_cloexec(f, needs_cloexec)? : whether the pass returns the error
MarkFailed(r) == r.ret = "err"

RECURSIVE PassLoop(_, _, _, _, _, _, _)
\* the loop of before_exec from stream position pos over the entries ents,
\* with acc the pass so far
PassLoop(keep, ents, pos, fault, checks, tab, acc) ==
    IF fault.kind = "read" /\ fault.at = pos + 1
    THEN [acc EXCEPT !.ret = "err", !.cause = "read", !.tab = tab, !.pos = pos]
    ELSE IF pos >= Len(ents)
    THEN [acc EXCEPT !.ret = "ok", !.cause = "eof", !.tab = tab, !.pos = pos]
    ELSE
      LET name == ents[pos + 1]
          acc1 == [acc EXCEPT !.readLog = Append(@, name)]
          p    == pos_int_from_ascii(name, checks)
      IN  IF p.kind # "ok"
          THEN [acc1 EXCEPT !.ret = "err", !.cause = "parse", !.tab = tab,
                            !.pos = pos + 1]
          ELSE
            LET f    == p.num
                needs_cloexec == ~binary_search(keep, f)
                tab1 == IF fault.kind = "gone" /\ fault.at = f /\ f \in DOMAIN tab
                        THEN [tab EXCEPT ![f] = Closed] ELSE tab
                r    == set_cloexec(tab1, f, needs_cloexec,
                                    fault.kind = "race" /\ fault.at = f)
            IN  IF MarkFailed(r)
                THEN [acc1 EXCEPT !.ret = "err", !.cause = "fcntl",
                                  !.tab = r.tab, !.pos = pos + 1]
                ELSE PassLoop(keep, ents, pos + 1, fault, checks, r.tab,
                              [acc1 EXCEPT !.markLog =
                                              IF r.ret = "ok" THEN Append(@, f) ELSE @,
                                           !.writes = @ + r.wrote])

NoPass ==
    [ret |-> "none", cause |-> "none", tab |-> <<>>, pos |-> 0,
     readLog |-> <<>>, markLog |-> <<>>, writes |-> 0]

\* CloseFdsOnExec::before_exec on the stream at position pos, with the
\* descriptor table tab.  The stream is read into its buffer at the first
\* readdir after the rewind.
before_exec(keep, tab, pos, dots, fault, checks) ==
    LET p0 == rewinddir(pos) IN
    IF fault.kind = "rewind"
    THEN [NoPass EXCEPT !.ret = "err", !.cause = "rewind", !.tab = tab, !.pos = p0]
    ELSE PassLoop(keep, ListDir(tab, dots), p0, fault, checks, tab, NoPass)

\* a plausible slip: the closure takes the unit by value and drops it (and
\* with it the stream) when the call returns
closure_call_consuming(u) ==
    [unit |-> "dropped", dir |-> "closed", closedirs |-> u.closedirs + 1]

\* let func = move || close_fds_on_exec.before_exec(): the closure borrows
\* the unit it owns, so a call leaves unit and stream as they are
closure_call(u) == u

\* Drop for OpenDir, run when the closure is dropped: closedir
OpenDir_drop(u) ==
    [unit |-> "dropped", dir |-> "closed", closedirs |-> u.closedirs + 1]

(***************************************************************************)
(* State.                                                                  *)
(***************************************************************************)
VARIABLES
    fds,        \* the descriptor table of the running process: fd -> flag word or Closed
    dots,       \* the descriptor directory lists "." and ".."
    unit,       \* the closure: "none", "live", "dropped"
    keep_fds,   \* CloseFdsOnExec.keep_fds
    dir,        \* OpenDir.dir: "unopened", "open", "closed", "null"
    dirPos,     \* position of the directory stream
    closedirs,  \* calls of closedir so far
    prepRet,    \* what close_fds_on_exec returned: "none", "ok", "err"
    dirFound,   \* whether opendir could open the directory: "none" (not asked), "found", "missing"
    ctx,        \* the process running: "parent" or "child" (after fork)
    saved,      \* in the child: the parent's descriptor table
    last,       \* the last call of the closure: its return and what it did
    lastFault,  \* the OS fault that call met
    quiet,      \* the descriptor table is as the last call left it
    calls,      \* calls of the closure since the table last changed otherwise
    late,       \* the highest open descriptor was opened after close_fds_on_exec returned
    inherited,  \* after exec: the descriptors the new image holds
    name,       \* parser: the entry name
    overflow_checks, \* the build checks integer overflow
    parsed,     \* parser: the result of pos_int_from_ascii(name)
    mark        \* marker: the last set_cloexec call and its result

vars == <<fds, dots, unit, keep_fds, dir, dirPos, closedirs, prepRet, dirFound,
          ctx, saved, last, lastFault, quiet, calls, late, inherited,
          name, overflow_checks, parsed, mark>>

unitVars == <<unit, keep_fds, dir, closedirs, prepRet, dirFound>>
parseVars == <<name, overflow_checks, parsed>>

\* flag words descriptors are opened with
OpenFlags == {0, FD_CLOEXEC}

RECURSIVE SeqsUpTo(_, _)
\* the sequences over S of length at most n
SeqsUpTo(S, n) ==
    IF n = 0 THEN {<<>>}
    ELSE LET shorter == SeqsUpTo(S, n - 1) IN
         shorter \cup {Append(q, x) : q \in {t \in shorter : Len(t) = n - 1}, x \in S}

KeepArgs == SeqsUpTo(FD, MaxKeep)

NoChild == {Closed}
NoMark == [ret |-> "none"]

\* the faults a pass over table tab can meet: a failing rewind, a failing
\* readdir (the at-th of the pass), a descriptor closed by another thread
\* after it was listed ("gone") or between F_GETFD and F_SETFD ("race")
Faults(tab, d) ==
    {NoFault, [kind |-> "rewind", at |-> 0]}
    \cup {[kind |-> "read", at |-> i] : i \in 1..(Len(ListDir(tab, d)) + 1)}
    \cup {[kind |-> k, at |-> fd] : k \in {"gone", "race"}, fd \in OpenFds(tab)}

\* no closure yet, no child, no call
InitUnit ==
    /\ unit = "none"
    /\ keep_fds = <<>>
    /\ dir = "unopened"
    /\ dirPos = 0
    /\ closedirs = 0
    /\ prepRet = "none"
    /\ dirFound = "none"
    /\ ctx = "parent"
    /\ saved = <<>>
    /\ last = NoPass
    /\ lastFault = NoFault
    /\ quiet = FALSE
    /\ calls = 0
    /\ late = FALSE
    /\ inherited = NoChild

\* the parser and the marker are not run on their own
InitParseIdle ==
    /\ name = <<Nul>>
    /\ overflow_checks = TRUE
    /\ parsed = [kind |-> "none"]

\* a process with any descriptor table, before close_fds_on_exec is called;
\* the tests are built with overflow checks (target/debug)
Init ==
    /\ fds \in [FD -> {Closed} \cup OpenFlags]
    /\ dots \in BOOLEAN
    /\ InitUnit
    /\ mark = NoMark
    /\ InitParseIdle

(***************************************************************************)
(* The environment: the program around the library.                        *)
(***************************************************************************)
\* the parent opens a descriptor (pipe() in the test)
OpenFd(fd, fl) ==
    /\ ctx = "parent"
    /\ unit # "dropped" /\ prepRet # "err"
    /\ fds[fd] = Closed
    /\ fds' = [fds EXCEPT ![fd] = fl]
    /\ late' = IF fd > Top(fds) THEN unit = "live" ELSE late
    /\ quiet' = FALSE
    /\ calls' = 0
    /\ last' = NoPass
    /\ lastFault' = NoFault
    /\ inherited' = NoChild
    /\ UNCHANGED <<dots, unitVars, dirPos, ctx, saved, parseVars, mark>>

\* the parent closes a descriptor (libc::close in the test)
CloseFd(fd) ==
    /\ ctx = "parent"
    /\ unit # "dropped" /\ prepRet # "err"
    /\ fds[fd] # Closed
    /\ fds' = [fds EXCEPT ![fd] = Closed]
    /\ late' = IF fd = Top(fds) THEN FALSE ELSE late
    /\ quiet' = FALSE
    /\ calls' = 0
    /\ last' = NoPass
    /\ lastFault' = NoFault
    /\ inherited' = NoChild
    /\ UNCHANGED <<dots, unitVars, dirPos, ctx, saved, parseVars, mark>>

\* close_fds_on_exec(keep): found is whether opendir can open the directory
Prepare(keep, found) ==
    /\ ctx = "parent"
    /\ prepRet = "none"
    /\ LET c == CloseFdsOnExec_new(keep, found) IN
         /\ prepRet' = IF c.ok THEN "ok" ELSE "err"
         /\ unit' = IF c.ok THEN "live" ELSE "none"
         /\ dir' = c.dir
         /\ keep_fds' = c.keep_fds
    /\ dirFound' = IF found THEN "found" ELSE "missing"
    /\ inherited' = NoChild
    /\ UNCHANGED <<fds, dots, dirPos, closedirs, ctx, saved, last, lastFault,
                   quiet, calls, late, parseVars, mark>>

\* Command::spawn forks; the child runs the closure before exec
Fork ==
    /\ ctx = "parent"
    /\ unit = "live"
    /\ ctx' = "child"
    /\ saved' = fds
    /\ last' = NoPass
    /\ lastFault' = NoFault
    /\ quiet' = FALSE
    /\ calls' = 0
    /\ inherited' = NoChild
    /\ UNCHANGED <<fds, dots, unitVars, dirPos, late, parseVars, mark>>

\* a call of the closure in the child: one execution pass.  A call that
\* returned Err ends the child (ChildExit), so no call follows it.
Call(fault) ==
    /\ ctx = "child"
    /\ unit = "live"
    /\ last.ret # "err"
    /\ calls < MaxCalls
    /\ LET r == before_exec(keep_fds, fds, dirPos, dots, fault, overflow_checks)
           u == closure_call([unit |-> unit, dir |-> dir, closedirs |-> closedirs])
       IN  /\ fds' = r.tab
           /\ dirPos' = r.pos
           /\ last' = [r EXCEPT !.tab = fds]
           /\ unit' = u.unit
           /\ dir' = u.dir
           /\ closedirs' = u.closedirs
           /\ lastFault' = IF r.cause \in {"rewind", "read", "fcntl"}
                           THEN fault ELSE NoFault
    /\ quiet' = TRUE
    /\ calls' = calls + 1
    /\ inherited' = NoChild
    /\ UNCHANGED <<dots, keep_fds, prepRet, dirFound, ctx, saved, late,
                   parseVars, mark>>

\* the closure returned Ok in the child: exec.  The new image holds the
\* descriptors without the close-on-exec flag; the model goes on with the
\* parent, whose table the child never touched.
Exec ==
    /\ ctx = "child"
    /\ last.ret = "ok"
    /\ inherited' = {fd \in FD : fds[fd] # Closed /\ ~HasCloexec(fds[fd])}
    /\ ctx' = "parent"
    /\ fds' = saved
    /\ saved' = <<>>
    /\ last' = NoPass
    /\ lastFault' = NoFault
    /\ quiet' = FALSE
    /\ calls' = 0
    /\ UNCHANGED <<dots, unitVars, dirPos, late, parseVars, mark>>

\* the closure returned Err in the child: spawn fails and the child exits
\* without exec and without dropping the closure
ChildExit ==
    /\ ctx = "child"
    /\ last.ret = "err"
    /\ inherited' = NoChild
    /\ ctx' = "parent"
    /\ fds' = saved
    /\ saved' = <<>>
    /\ last' = NoPass
    /\ lastFault' = NoFault
    /\ quiet' = FALSE
    /\ calls' = 0
    /\ UNCHANGED <<dots, unitVars, dirPos, late, parseVars, mark>>

\* the parent drops the closure (the Command goes out of scope)
Drop ==
    /\ ctx = "parent"
    /\ unit = "live"
    /\ LET u == OpenDir_drop([unit |-> unit, dir |-> dir, closedirs |-> closedirs])
       IN  /\ unit' = u.unit
           /\ dir' = u.dir
           /\ closedirs' = u.closedirs
    /\ last' = NoPass
    /\ lastFault' = NoFault
    /\ quiet' = FALSE
    /\ calls' = 0
    /\ inherited' = NoChild
    /\ UNCHANGED <<fds, dots, keep_fds, prepRet, dirFound, dirPos, ctx, saved,
                   late, parseVars, mark>>

Next ==
    \/ \E fd \in FD, fl \in OpenFlags : OpenFd(fd, fl)
    \/ \E fd \in FD : CloseFd(fd)
    \/ \E keep \in KeepArgs, found \in BOOLEAN : Prepare(keep, found)
    \/ Fork
    \/ \E fault \in Faults(fds, dots) : Call(fault)
    \/ Exec
    \/ ChildExit
    \/ Drop

Spec == Init /\ [][Next]_vars

(***************************************************************************)
(* The marker on its own: set_cloexec on descriptors with any flag word.   *)
(***************************************************************************)
FlagWords == 0..MaxFlagWord

InitMarker ==
    /\ fds \in [FD -> {Closed} \cup FlagWords]
    /\ dots = FALSE
    /\ InitUnit
    /\ mark = NoMark
    /\ InitParseIdle

\* set_cloexec(fd, set); fd may be a number no descriptor has (MaxFd + 1)
Mark(fd, set, race) ==
    /\ LET r == set_cloexec(fds, fd, set, race) IN
         /\ fds' = r.tab
         /\ mark' = [ret |-> r.ret, fd |-> fd, set |-> set, race |-> race,
                     pre |-> fds, wrote |-> r.wrote]
    /\ UNCHANGED <<dots, unitVars, dirPos, ctx, saved, last, lastFault, quiet,
                   calls, late, inherited, parseVars>>

NextMarker == \E fd \in 0..(MaxFd + 1), set \in BOOLEAN, race \in BOOLEAN : Mark(fd, set, race)

SpecMarker == InitMarker /\ [][NextMarker]_vars

(***************************************************************************)
(* The parser on its own: pos_int_from_ascii on bounded entry names.       *)
(***************************************************************************)
\* bytes around the digit range, a letter, and a byte that is negative as i8
ByteAlphabet == {AsciiDot, AsciiZero - 1, AsciiZero, AsciiNine, AsciiNine + 1, 97, 200}
\* the digits of the long names
DigitAlphabet == {AsciiZero, AsciiZero + 3, AsciiNine}

\* i32::MAX, i32::MAX + 1 and 2^32 as names
EdgeNames ==
    { <<50, 49, 52, 55, 52, 56, 51, 54, 52, 55>>,
      <<50, 49, 52, 55, 52, 56, 51, 54, 52, 56>>,
      <<52, 50, 57, 52, 57, 54, 55, 50, 57, 54>> }

Names ==
    {Append(q, Nul) : q \in SeqsUpTo(ByteAlphabet, MaxShortLen)
                           \cup SeqsUpTo(DigitAlphabet, MaxNameLen)
                           \cup EdgeNames}

InitParse ==
    /\ name \in Names
    /\ overflow_checks \in BOOLEAN
    /\ parsed = [kind |-> "none"]
    /\ fds = [fd \in FD |-> Closed]
    /\ dots = FALSE
    /\ InitUnit
    /\ mark = NoMark

Parse ==
    /\ parsed.kind = "none"
    /\ parsed' = pos_int_from_ascii(name, overflow_checks)
    /\ UNCHANGED <<fds, dots, unitVars, dirPos, ctx, saved, last, lastFault,
                   quiet, calls, late, inherited, name, overflow_checks, mark>>

NextParse == Parse

SpecParse == InitParse /\ [][NextParse]_vars

(***************************************************************************)
(* Properties.                                                             *)
(***************************************************************************)
Range(q) == {q[i] : i \in 1..Len(q)}

\* the keep set K of the closure
K == Range(keep_fds)

\* the last step was a call of the closure that returned Ok
JustPassedOk == quiet /\ last.ret = "ok"

\* a step that is a call of the closure
CallStep == calls' = calls + 1

\* C1: after a call of the closure that returned Ok, every descriptor D that
\* was open when the call began has its close-on-exec flag clear if D is in
\* the keep set (even if it was set before) and set if D is not.
C1_KeepSetDecidesFlag ==
    JustPassedOk =>
        \A D \in OpenFds(last.tab) :
            /\ fds[D] # Closed
            /\ HasCloexec(fds[D]) <=> D \notin K

\* the case of C1: a two-element keep set whose smallest and largest members
\* are both open, the largest with its flag set before the call, beside an
\* open descriptor outside the keep set
C1_Witness ==
    /\ JustPassedOk
    /\ Len(keep_fds) = 2 /\ keep_fds[1] < keep_fds[2]
    /\ keep_fds[1] \in OpenFds(last.tab)
    /\ keep_fds[2] \in OpenFds(last.tab)
    /\ HasCloexec(last.tab[keep_fds[2]])
    /\ ~HasCloexec(fds[keep_fds[2]])
    /\ \E D \in OpenFds(last.tab) : D \notin K /\ ~HasCloexec(last.tab[D]) /\ HasCloexec(fds[D])

\* C2: a pass that returns Ok has processed exactly the descriptors open when
\* it ran; a descriptor opened after close_fds_on_exec returned (the highest
\* one, when late) and not in the keep set has its flag set by the pass and
\* is not held by the image exec starts.
C2_FreshListing ==
    /\ last.ret = "ok" => Range(last.markLog) = OpenFds(last.tab)
    /\ (JustPassedOk /\ late /\ Top(last.tab) \notin K) => HasCloexec(fds[Top(last.tab)])
    /\ (inherited # NoChild /\ late /\ Top(fds) \notin K) => Top(fds) \notin inherited

\* the case of C2: exec after a pass, with a late descriptor outside the keep
\* set open in the parent
C2_Witness ==
    /\ inherited # NoChild
    /\ late
    /\ Top(fds) # Closed
    /\ Top(fds) \notin K
    /\ ~HasCloexec(fds[Top(fds)])

\* C3: when the directory lists "." and "..", a pass does not return an error
\* because of these two entries.
C3_DotEntriesSkipped ==
    (dots /\ last.ret = "err" /\ last.cause = "parse")
        => last.readLog[Len(last.readLog)] \notin {DotName, DotDotName}

\* the entries of the listing a pass took
ListingOf(pass) == ListDir(pass.tab, dots)

IsPrefix(a, b) == Len(a) <= Len(b) /\ a = SubSeq(b, 1, Len(a))

\* the names of the descriptors marked, in order
MarkedNames(pass) == [i \in 1..Len(pass.markLog) |-> NameOf(pass.markLog[i])]

\* C4: a pass returns Ok only at end-of-stream with every entry read marked;
\* on the first failure (rewind, readdir, parse, fcntl) it returns Err with
\* no later entry read or marked.
C4_FailFast ==
    /\ last.ret = "ok" =>
         /\ last.cause = "eof"
         /\ lastFault = NoFault
         /\ last.readLog = ListingOf(last)
         /\ MarkedNames(last) = last.readLog
    /\ last.ret = "err" =>
         /\ IsPrefix(last.readLog, ListingOf(last))
         /\ dirPos = Len(last.readLog)
         /\ last.cause = "rewind" => (last.readLog = <<>> /\ lastFault.kind = "rewind")
         /\ last.cause = "read" =>
              (lastFault.kind = "read" /\ Len(last.readLog) = lastFault.at - 1
               /\ MarkedNames(last) = last.readLog)
         /\ last.cause \in {"parse", "fcntl"} =>
              (last.readLog # <<>>
               /\ MarkedNames(last) = SubSeq(last.readLog, 1, Len(last.readLog) - 1))
         /\ last.cause = "fcntl" =>
              (lastFault.kind \in {"gone", "race"}
               /\ last.readLog[Len(last.readLog)] = NameOf(lastFault.at))
         /\ \A fd \in FD :
              (NameOf(fd) \notin Range(last.readLog) /\ last.tab[fd] # Closed)
                  => fds[fd] = last.tab[fd]

\* the case of C4: a descriptor closed between listing and marking fails a
\* pass that had marked an entry and leaves a listed entry unread
C4_Witness ==
    /\ last.ret = "err"
    /\ last.cause = "fcntl"
    /\ lastFault.kind = "gone"
    /\ last.markLog # <<>>
    /\ Len(last.readLog) < Len(ListingOf(last))

C5Step ==
    /\ closedirs' <= 1
    /\ dir' = "closed" <=> closedirs' = 1
    /\ closedirs' # closedirs =>
         (unit = "live" /\ unit' = "dropped" /\ ctx = "parent" /\ ~CallStep)
    /\ CallStep =>
         (dir = "open" /\ dir' = "open" /\ unit' = "live" /\ closedirs' = closedirs)

\* C5: the stream is released (closedir) at most once, only by the drop of
\* the closure; a call of the closure, Ok or Err, finds the stream open and
\* leaves it open.
C5_ReleasedOnceByDrop == [][C5Step]_vars

\* the case of C5: the closure dropped after a pass ran on its stream
C5_Witness ==
    /\ unit = "dropped"
    /\ closedirs = 1
    /\ dir = "closed"
    /\ dirPos > 0

C6Step ==
    (CallStep /\ calls >= 1 /\ JustPassedOk /\ lastFault'.kind \notin {"gone", "race"})
        => (fds' = fds /\ last'.writes = 0 /\ last'.ret \in {"ok", "err"})

\* C6: a call of the closure right after a call that returned Ok, with no
\* descriptor opened or closed meanwhile, leaves every flag word as it was
\* and writes no flag word.
C6_Idempotent == [][C6Step]_vars

\* the case of C6: a second call returned Ok on a table the first call had
\* set flags in
C6_Witness ==
    /\ calls = 2
    /\ JustPassedOk
    /\ last.writes = 0
    /\ \E D \in OpenFds(fds) : D \notin K /\ HasCloexec(fds[D])
    /\ \E D \in OpenFds(fds) : D \in K

\* what a pass with the closure close_fds_on_exec(keep) would return and
\* leave in the table, on the state and fault of the step
OutcomeWith(keep, fault) ==
    LET c == CloseFdsOnExec_new(keep, TRUE)
        r == before_exec(c.keep_fds, fds, dirPos, dots, fault, overflow_checks)
    IN  <<r.ret, r.tab>>

C7Step ==
    CallStep =>
        \A keep \in KeepArgs :
            Range(keep) = K => OutcomeWith(keep, lastFault') = <<last'.ret, fds'>>

\* C7: the return value and the final flags of a pass are those of a pass of
\* the closure made from any other vector with the same set of values (any
\* permutation, with or without repeated values).
C7_KeepOrderAndDuplicates == [][C7Step]_vars

\* the case of C7: a pass with a keep vector holding one open descriptor
\* twice, whose flag it cleared
C7_Witness ==
    /\ JustPassedOk
    /\ Len(keep_fds) = 2 /\ keep_fds[1] = keep_fds[2]
    /\ keep_fds[1] \in OpenFds(last.tab)
    /\ HasCloexec(last.tab[keep_fds[1]])
    /\ ~HasCloexec(fds[keep_fds[1]])
    /\ \E D \in OpenFds(fds) : D \notin K

C8Step ==
    dirFound' = "missing" =>
        /\ prepRet' = "err"
        /\ unit' = "none"
        /\ dir' = "unopened"
        /\ closedirs' = 0
        /\ last'.ret = "none"
        /\ fds' = fds

\* C8: when the directory cannot be opened, close_fds_on_exec returns the
\* error and no closure: nothing can be called or dropped, no stream is held
\* or released, and no flag is changed.
C8_NoUnitOnOpenFailure == [][C8Step]_vars

\* the case of C8: close_fds_on_exec failed in a process with open descriptors
C8_Witness ==
    /\ dirFound = "missing"
    /\ prepRet = "err"
    /\ OpenFds(fds) # {}

\* the flag word without its close-on-exec bit
OtherBits(w) == IF HasCloexec(w) THEN w - FD_CLOEXEC ELSE w

\* C9: set_cloexec(fd, desired) touches no other descriptor; fails without a
\* write when the flag word cannot be read; returns Ok without a write when
\* the bit is already as desired; otherwise writes the flag word with the bit
\* as desired and every other bit as it was.
C9_MarkerFrame ==
    mark.ret # "none" =>
        LET fd == mark.fd
            pre == mark.pre
            open == fd \in FD /\ pre[fd] # Closed
        IN  /\ \A g \in FD : g # fd => fds[g] = pre[g]
            /\ ~open => (mark.ret = "err" /\ fds = pre /\ mark.wrote = 0)
            /\ (open /\ HasCloexec(pre[fd]) = mark.set) =>
                   (mark.ret = "ok" /\ fds = pre /\ mark.wrote = 0)
            /\ (open /\ HasCloexec(pre[fd]) # mark.set /\ ~mark.race) =>
                   /\ mark.ret = "ok"
                   /\ mark.wrote = 1
                   /\ HasCloexec(fds[fd]) = mark.set
                   /\ OtherBits(fds[fd]) = OtherBits(pre[fd])
            /\ (open /\ HasCloexec(pre[fd]) # mark.set /\ mark.race) =>
                   (mark.ret = "err" /\ mark.wrote = 0)

\* the case of C9: the bit cleared on a flag word with another bit set
C9_Witness ==
    /\ mark.ret = "ok"
    /\ mark.wrote = 1
    /\ ~mark.set
    /\ OtherBits(mark.pre[mark.fd]) # 0
    /\ fds[mark.fd] = OtherBits(mark.pre[mark.fd])

(***************************************************************************)
(* The decimal value of a name, apart from the parser.                     *)
(***************************************************************************)
IsDigit(b) == b >= AsciiZero /\ b <= AsciiNine

\* the bytes of name before its first byte that is no digit
DigitRun(nm) ==
    LET stop == CHOOSE i \in 1..Len(nm) :
                    ~IsDigit(nm[i]) /\ \A j \in 1..(i - 1) : IsDigit(nm[j])
    IN  SubSeq(nm, 1, stop - 1)

\* every byte before the terminating NUL is a digit
AllDigits(nm) == nm[Len(DigitRun(nm)) + 1] = Nul

RECURSIVE StripZeros(_)
StripZeros(ds) ==
    IF ds # <<>> /\ Head(ds) = AsciiZero THEN StripZeros(Tail(ds)) ELSE ds

RECURSIVE LexLeq(_, _)
\* a <= b for digit strings of one length
LexLeq(a, b) ==
    IF a = <<>> THEN TRUE
    ELSE IF Head(a) # Head(b) THEN Head(a) < Head(b)
    ELSE LexLeq(Tail(a), Tail(b))

\* the decimal value of the digits is at most i32::MAX
FitsInt(ds) ==
    LET t == StripZeros(ds) IN
    \/ Len(t) < Len(DigitsOf(IntMax))
    \/ Len(t) = Len(DigitsOf(IntMax)) /\ LexLeq(t, DigitsOf(IntMax))

RECURSIVE Pow10(_)
Pow10(k) == IF k = 0 THEN 1 ELSE 10 * Pow10(k - 1)

RECURSIVE SumDigits(_, _)
\* the sum of digit * 10^position over the digits t from index i
SumDigits(t, i) ==
    IF i > Len(t) THEN 0
    ELSE (t[i] - AsciiZero) * Pow10(Len(t) - i) + SumDigits(t, i + 1)

\* the decimal value of digits that fit
DecimalValue(ds) == SumDigits(StripZeros(ds), 1)

\* C10 as stated: every all-digit name, of any length, parses to its decimal
\* value, a non-negative integer; every other name fails with the
\* invalid-format error.
C10_ParsesAnyLength ==
    parsed.kind # "none" =>
        /\ AllDigits(name) =>
              /\ parsed.kind = "ok"
              /\ FitsInt(DigitRun(name))
              /\ parsed.num >= 0
              /\ parsed.num = DecimalValue(DigitRun(name))
        /\ ~AllDigits(name) => parsed.kind = "err"

\* C10, amended: a name whose leading digits have a decimal value of at most
\* i32::MAX parses to that value when the digits end at the NUL, and fails
\* with the invalid-format error otherwise.
C10_ParsesWithinInt ==
    (parsed.kind # "none" /\ FitsInt(DigitRun(name))) =>
        /\ AllDigits(name) =>
              /\ parsed.kind = "ok"
              /\ parsed.num >= 0
              /\ parsed.num = DecimalValue(DigitRun(name))
        /\ ~AllDigits(name) => parsed.kind = "err"

\* the case of C10: i32::MAX itself parsed
C10_Witness ==
    /\ parsed.kind = "ok"
    /\ parsed.num = IntMax
    /\ name = Append(DigitsOf(IntMax), Nul)

=============================================================================
